---- MODULE Spec2Model ----
(***************************************************************************)
(* AURA-MF web demo backend (src/docs/assets/js/aura_demo_backend.py):     *)
(* the POST /api/simulate route and SimplifiedPhysicsSolver.               *)
(*                                                                         *)
(* Floats are modelled in fixed point, one unit per quantity:              *)
(*   temperature           cK    (0.01 K)                                  *)
(*   power, heat flux      mW                                              *)
(*   solar_irradiance      W/m^2                                           *)
(*   wind_speed            cm/s  (0.01 m/s)                                *)
(*   cell_efficiency       1/1000                                          *)
(*   absorptivity          1/100                                           *)
(*   emissivity            1/100                                           *)
(*   thermal_conductivity  W/(m K)                                         *)
(*   dt                    0.1 s                                           *)
(* plus the one float that is no number, NaN, which every arithmetic       *)
(* operation propagates and every comparison answers False for.            *)
(*                                                                         *)
(* Dashboard backend (src/backend/app.py): the shared SimulationState and  *)
(* the GET /api/simulate route that updates it.  Its clock readings and    *)
(* its simulation time are in 0.1 s.                                       *)
(***************************************************************************)
EXTENDS Integers, Sequences, FiniteSets, TLC

\* ------------------------------------------------------------------ bounds

\* Grid columns (params.nx; 25 in the demo).
NX == 3
\* Grid rows (params.ny; 25 in the demo).
NY == 2
\* n_steps of a request served by the route (100 in the demo).
RouteSteps == 11
\* The largest n_steps of a solver constructed directly.
DirectSteps == 6
\* GET /api/simulate requests served by the dashboard backend.
MaxCalls == 102

\* ------------------------------------------------------- float arithmetic

\* float('nan'): a value outside every range the fixed-point numbers reach.
NaN == -(10^9)

IsNaN(x) == x = NaN

FAdd(a, b) == IF IsNaN(a) \/ IsNaN(b) THEN NaN ELSE a + b

FSub(a, b) == IF IsNaN(a) \/ IsNaN(b) THEN NaN ELSE a - b

FMul(a, b) == IF IsNaN(a) \/ IsNaN(b) THEN NaN ELSE a * b

\* a / k for a scale factor k > 0 (rounds toward minus infinity).
FDiv(a, k) == IF IsNaN(a) \/ IsNaN(k) THEN NaN ELSE a \div k

\* a <= b on floats: False when either side is NaN.
FLe(a, b) == ~IsNaN(a) /\ ~IsNaN(b) /\ a <= b

\* a > b on floats: False when either side is NaN.
FGt(a, b) == ~IsNaN(a) /\ ~IsNaN(b) /\ a > b

\* np.clip(x, lo, hi) = minimum(hi, maximum(x, lo)); NaN stays NaN.
NpClip(x, lo, hi) ==
    IF IsNaN(x) THEN NaN
    ELSE IF x < lo THEN lo
    ELSE IF x > hi THEN hi
    ELSE x

\* Python's max(a, b): b if b > a else a.
PyMax(a, b) == IF FGt(b, a) THEN b ELSE a

RECURSIVE IsqrtBetween(_, _, _)
IsqrtBetween(x, lo, hi) ==
    IF lo >= hi THEN lo
    ELSE LET mid == (lo + hi + 1) \div 2
         IN  IF mid * mid <= x THEN IsqrtBetween(x, mid, hi)
             ELSE IsqrtBetween(x, lo, mid - 1)

\* floor(sqrt(x)) for 0 <= x; np.sqrt of a negative number is NaN.
NpSqrt(x) ==
    IF IsNaN(x) \/ x < 0 THEN NaN ELSE IsqrtBetween(x, 0, 46340)

\* Scale of exp values and of the edge factor.
ExpScale == 10^4

RECURSIVE ExpSeries(_, _, _, _)
\* sum_{k >= n} (-w)^k / k!, given term = w^(n-1)/(n-1)! (both in ExpScale).
ExpSeries(w, term, n, sign) ==
    LET t == (term * w) \div (ExpScale * n)
    IN  IF t = 0 THEN 0 ELSE sign * t + ExpSeries(w, t, n + 1, -sign)

RECURSIVE SquareTimes(_, _)
SquareTimes(e, n) ==
    IF n = 0 THEN e ELSE SquareTimes((e * e) \div ExpScale, n - 1)

\* np.exp(-10 * num / den) in ExpScale, 0 <= num <= den:
\* exp(-z) = exp(-z/16)^16 with the Taylor series of exp(-z/16).
NpExpNeg10(num, den) ==
    LET w == (10 * num * ExpScale) \div (16 * den)
    IN  SquareTimes(ExpScale + ExpSeries(w, ExpScale, 1, -1), 4)

\* ------------------------------------------------------------- parameters

\* SimulationParameters' defaults, in the model's units.
DefaultSolarIrradiance == 1000
DefaultAmbientTemperature == 30000
DefaultWindSpeed == 100
DefaultCellEfficiency == 200
DefaultThermalConductivity == 130
DefaultAbsorptivity == 95
DefaultEmissivity == 90
DefaultDt == 1

\* SimulationParameters(): the dataclass with every field at its default
\* (n_steps and the grid size are bounded here, see RouteSteps, NX, NY).
DefaultParameters ==
    [nx |-> NX, ny |-> NY,
     solar_irradiance |-> DefaultSolarIrradiance,
     ambient_temperature |-> DefaultAmbientTemperature,
     wind_speed |-> DefaultWindSpeed,
     cell_efficiency |-> DefaultCellEfficiency,
     thermal_conductivity |-> DefaultThermalConductivity,
     absorptivity |-> DefaultAbsorptivity,
     emissivity |-> DefaultEmissivity,
     dt |-> DefaultDt,
     n_steps |-> RouteSteps]

\* ------------------------------------------------------------ the solver

\* Index set of a (ny, nx) array: <<row, column>>.
Cells(p) == (1 .. p.ny) \X (1 .. p.nx)

\* np.ones((ny, nx)) * ambient_temperature
InitialTemperature(p) == [c \in Cells(p) |-> p.ambient_temperature]

\* np.zeros((ny, nx))
InitialPower(p) == [c \in Cells(p) |-> 0]

\* np.linspace(0, 1, n)[k-1] as the fraction <<numerator, denominator>>.
Linspace(n, k) == IF n = 1 THEN <<0, 1>> ELSE <<k - 1, n - 1>>

\* edge_factor = 1.0 - 0.1 * (exp(-10 X) + exp(-10 (1-X)) + exp(-10 Y)
\*                            + exp(-10 (1-Y))), in ExpScale.
EdgeFactor(p, c) ==
    LET x == Linspace(p.nx, c[2])
        y == Linspace(p.ny, c[1])
    IN  ExpScale - (NpExpNeg10(x[1], x[2]) + NpExpNeg10(x[2] - x[1], x[2])
                    + NpExpNeg10(y[1], y[2]) + NpExpNeg10(y[2] - y[1], y[2]))
                   \div 10

\* compute_solar_absorption: Q_solar * edge_factor with
\* Q_solar = solar_irradiance * absorptivity * cell_area (cell_area = 0.01),
\* in mW: irradiance * (absorptivity/100) * 0.01 * 1000 * edge/ExpScale.
SolarAbsorption(p) ==
    [c \in Cells(p) |->
        FDiv(FMul(FMul(p.solar_irradiance, p.absorptivity), EdgeFactor(p, c)),
             10 * ExpScale)]

\* T_ref = 298.15 K
TRef == 29815
\* np.clip(eta_T, 0.05, 0.30): the bounds in 1/10000.
EtaMin == 500
EtaMax == 3000

\* eta_T = clip(cell_efficiency * (1.0 - beta * (T - T_ref)), 0.05, 0.30)
\* with beta = 0.004 /K, in 1/10000:
\* (cell_efficiency/1000) * (100000 - 4 * (T - T_ref)) / 100000.
EtaT(p, t) ==
    NpClip(FDiv(FMul(p.cell_efficiency, FSub(10^5, FMul(4, FSub(t, TRef)))),
                10^4),
           EtaMin, EtaMax)

\* compute_electrical_generation: P_elec = eta_T * Q_solar
ElectricalGeneration(p, T) ==
    LET Q_solar == SolarAbsorption(p)
    IN  [c \in Cells(p) |-> FDiv(FMul(EtaT(p, T[c]), Q_solar[c]), 10^4)]

\* The floor of the convection coefficient, 5.0 W/(m^2 K), in 1/100.
HConvFloor == 500
\* 10.45 in 1/100.
HConvBase == 1045

\* Python's min(a, b): b if b < a else a.
PyMin(a, b) == IF FGt(a, b) THEN b ELSE a

\* The coefficient as a bug would have it: min in the place of max.
ConvectionCoefficientMin(p) ==
    PyMin(HConvFloor,
          FAdd(FSub(HConvBase, p.wind_speed),
               NpSqrt(FMul(10^4, p.wind_speed))))

\* h_conv = max(5.0, 10.45 - v + 10.0 * np.sqrt(v)) in 1/100 W/(m^2 K):
\* 100 * 10 * sqrt(v/100) = sqrt(10000 * v).
ConvectionCoefficient(p) ==
    PyMax(HConvFloor,
          FAdd(FSub(HConvBase, p.wind_speed),
               NpSqrt(FMul(10^4, p.wind_speed))))

\* compute_convective_cooling: Q_conv = h_conv * cell_area * (T - T_amb),
\* in mW: (h/100) * 0.01 * (dT/100) * 1000.
ConvectiveCooling(p, T) ==
    LET h_conv == ConvectionCoefficient(p)
    IN  [c \in Cells(p) |->
            FDiv(FMul(h_conv, FSub(T[c], p.ambient_temperature)), 1000)]

\* t**4 for t in cK, in units of 100 K^4.
Pow4(t) ==
    IF IsNaN(t) THEN NaN
    ELSE LET dK == t \div 10
             sq == (dK * dK) \div 1000
         IN  sq * sq

\* compute_radiative_cooling:
\* Q_rad = emissivity * 5.67e-8 * cell_area * (T**4 - T_sky**4),
\* T_sky = ambient_temperature - 10.0; in mW:
\* (emissivity/100) * 567e-10 * 0.01 * 100 * d4 * 1000 = 567e-9 * emissivity * d4.
RadiativeCooling(p, T) ==
    LET T_sky == FSub(p.ambient_temperature, 1000)
    IN  [c \in Cells(p) |->
            FDiv(FMul(FDiv(FMul(FDiv(FSub(Pow4(T[c]), Pow4(T_sky)), 1000),
                                567), 1000),
                      p.emissivity), 1000)]

\* np.pad(T, 1, mode='edge'): the neighbour index, clamped to the grid.
EdgeIndex(k, n) == IF k < 1 THEN 1 ELSE IF k > n THEN n ELSE k

\* compute_conduction: Q_cond = alpha * laplacian * rho * c_p * cell_area * dx
\* with alpha = k / (rho * c_p) and the 5-point stencil over dx = dy = 0.1,
\* in mW: k * (sum of the four neighbour differences in cK).
Conduction(p, T) ==
    [c \in Cells(p) |->
        LET i == c[1]
            j == c[2]
            right == T[<<i, EdgeIndex(j + 1, p.nx)>>]
            left  == T[<<i, EdgeIndex(j - 1, p.nx)>>]
            below == T[<<EdgeIndex(i + 1, p.ny), j>>]
            above == T[<<EdgeIndex(i - 1, p.ny), j>>]
            d2T_dx2 == FAdd(FSub(right, FMul(2, T[c])), left)
            d2T_dy2 == FAdd(FSub(below, FMul(2, T[c])), above)
        IN  FMul(p.thermal_conductivity, FAdd(d2T_dx2, d2T_dy2))]

\* mass * c_p = 2330.0 * 0.01 * 0.002 * 700.0 = 32.62 J/K, times 100.
MassCp == 3262

\* Q_net = (1.0 - cell_efficiency) * Q_solar - Q_conv - Q_rad + Q_cond
NetFlux(p, T) ==
    LET Q_solar == SolarAbsorption(p)
        Q_conv == ConvectiveCooling(p, T)
        Q_rad == RadiativeCooling(p, T)
        Q_cond == Conduction(p, T)
    IN  [c \in Cells(p) |->
            FAdd(FSub(FSub(FDiv(FMul(FSub(1000, p.cell_efficiency), Q_solar[c]),
                                1000),
                           Q_conv[c]),
                      Q_rad[c]),
                 Q_cond[c])]

\* self.temperature += dT with dT = Q_net * dt / (mass * c_p)
EulerUpdate(p, T) ==
    LET Q_net == NetFlux(p, T)
    IN  [c \in Cells(p) |-> FAdd(T[c], FDiv(FMul(Q_net[c], p.dt), MassCp))]

\* The safety interval of the clamp, 200.0 K and 450.0 K.
TMin == 20000
TMax == 45000

\* self.temperature = np.clip(self.temperature, 200.0, 450.0)
SafetyClamp(T) == [c \in DOMAIN T |-> NpClip(T[c], TMin, TMax)]

\* ----------------------------------------------------------- the summary

RECURSIVE SumOver(_, _)
\* np.sum over the cells S of grid f; NaN if any cell is NaN.
SumOver(f, S) ==
    IF S = {} THEN 0
    ELSE LET c == CHOOSE x \in S : TRUE
         IN  FAdd(f[c], SumOver(f, S \ {c}))

\* np.mean
NpMean(f) == FDiv(SumOver(f, DOMAIN f), Cardinality(DOMAIN f))

\* np.max: NaN if any cell is NaN.
NpMaxOf(f) ==
    IF \E c \in DOMAIN f : IsNaN(f[c]) THEN NaN
    ELSE CHOOSE m \in {f[c] : c \in DOMAIN f} : \A c \in DOMAIN f : f[c] <= m

\* np.min: NaN if any cell is NaN.
NpMinOf(f) ==
    IF \E c \in DOMAIN f : IsNaN(f[c]) THEN NaN
    ELSE CHOOSE m \in {f[c] : c \in DOMAIN f} : \A c \in DOMAIN f : m <= f[c]

\* ndarray.tolist(): the list of the rows.
ToList(p, f) == [i \in 1 .. p.ny |-> [j \in 1 .. p.nx |-> f[<<i, j>>]]]

\* power_generation / (compute_solar_absorption() + 1e-10), in 1/10000.
EfficiencyField(p, P) ==
    LET Q_solar == SolarAbsorption(p)
    IN  [c \in Cells(p) |->
            IF IsNaN(P[c]) \/ IsNaN(Q_solar[c]) THEN NaN
            ELSE IF Q_solar[c] = 0 THEN 0
            ELSE (P[c] * 10^4) \div Q_solar[c]]

\* The results dictionary of run_simulation, without runtime_ms.
Summary(p, T, P) ==
    [temperature_field |-> ToList(p, T),
     power_field |-> ToList(p, P),
     temperature_mean |-> NpMean(T),
     temperature_max |-> NpMaxOf(T),
     temperature_min |-> NpMinOf(T),
     power_total |-> SumOver(P, DOMAIN P),
     power_mean |-> NpMean(P),
     efficiency_avg |-> NpMean(EfficiencyField(p, P))]

\* ------------------------------------------------------------ the route

\* The keys of the request body the route reads.
Fields ==
    {"solar_irradiance", "ambient_temperature", "wind_speed",
     "cell_efficiency", "thermal_conductivity", "absorptivity", "emissivity"}

\* A value of the JSON body: the key is absent, or holds something float()
\* converts (a number, or NaN: the JSON literal or the string "nan"), or
\* holds text float() raises ValueError on.
Absent == [kind |-> "absent", value |-> 0]
Number(n) == [kind |-> "float", value |-> n]
Text == [kind |-> "text", value |-> 0]

\* request.json of a body without keys.
EmptyBody == [f \in Fields |-> Absent]

\* data.get(key, default)
Get(data, key, default) ==
    IF data[key].kind = "absent" THEN Number(default) ELSE data[key]

\* Whether float(data.get(key, default)) raises for one of the seven keys.
FloatRaises(data) == \E f \in Fields : data[f].kind = "text"

\* SimulationParameters(solar_irradiance=float(data.get(...)), ...): the
\* other fields keep the dataclass defaults.
ParametersOf(data) ==
    [DefaultParameters EXCEPT
        !.solar_irradiance =
            Get(data, "solar_irradiance", DefaultSolarIrradiance).value,
        !.ambient_temperature =
            Get(data, "ambient_temperature", DefaultAmbientTemperature).value,
        !.wind_speed = Get(data, "wind_speed", DefaultWindSpeed).value,
        !.cell_efficiency =
            Get(data, "cell_efficiency", DefaultCellEfficiency).value,
        !.thermal_conductivity =
            Get(data, "thermal_conductivity", DefaultThermalConductivity).value,
        !.absorptivity = Get(data, "absorptivity", DefaultAbsorptivity).value,
        !.emissivity = Get(data, "emissivity", DefaultEmissivity).value]

\* The bounds of the four range checks, in the model's units.
IrradianceMin == 800
IrradianceMax == 1200
AmbientMin == 28000
AmbientMax == 33000
WindMin == 0
WindMax == 1000
EfficiencyMin == 100
EfficiencyMax == 300

\* lo <= x <= hi on floats.
Within(lo, x, hi) == FLe(lo, x) /\ FLe(x, hi)

NoError == ""

\* The checks as a bug would have them: the lower bounds excluded.
ValidationErrorStrict(p) ==
    IF ~(FGt(p.solar_irradiance, IrradianceMin)
         /\ FLe(p.solar_irradiance, IrradianceMax))
    THEN "Solar irradiance out of range [800-1200]"
    ELSE IF ~(FGt(p.ambient_temperature, AmbientMin)
              /\ FLe(p.ambient_temperature, AmbientMax))
    THEN "Ambient temperature out of range [280-330]"
    ELSE IF ~(FGt(p.wind_speed, WindMin) /\ FLe(p.wind_speed, WindMax))
    THEN "Wind speed out of range [0-10]"
    ELSE IF ~(FGt(p.cell_efficiency, EfficiencyMin)
              /\ FLe(p.cell_efficiency, EfficiencyMax))
    THEN "Cell efficiency out of range [0.10-0.30]"
    ELSE NoError

\* The checks as a bug would have them: the last one left out.
ValidationErrorNoEfficiency(p) ==
    IF ~Within(IrradianceMin, p.solar_irradiance, IrradianceMax)
    THEN "Solar irradiance out of range [800-1200]"
    ELSE IF ~Within(AmbientMin, p.ambient_temperature, AmbientMax)
    THEN "Ambient temperature out of range [280-330]"
    ELSE IF ~Within(WindMin, p.wind_speed, WindMax)
    THEN "Wind speed out of range [0-10]"
    ELSE NoError

\* The checks as a bug would have them: two error texts exchanged.
ValidationErrorExchanged(p) ==
    IF ~Within(IrradianceMin, p.solar_irradiance, IrradianceMax)
    THEN "Solar irradiance out of range [800-1200]"
    ELSE IF ~Within(AmbientMin, p.ambient_temperature, AmbientMax)
    THEN "Wind speed out of range [0-10]"
    ELSE IF ~Within(WindMin, p.wind_speed, WindMax)
    THEN "Ambient temperature out of range [280-330]"
    ELSE IF ~Within(EfficiencyMin, p.cell_efficiency, EfficiencyMax)
    THEN "Cell efficiency out of range [0.10-0.30]"
    ELSE NoError

\* The four range checks in their order: the error of the first that fails,
\* NoError when all pass.
ValidationError(p) ==
    IF ~Within(IrradianceMin, p.solar_irradiance, IrradianceMax)
    THEN "Solar irradiance out of range [800-1200]"
    ELSE IF ~Within(AmbientMin, p.ambient_temperature, AmbientMax)
    THEN "Ambient temperature out of range [280-330]"
    ELSE IF ~Within(WindMin, p.wind_speed, WindMax)
    THEN "Wind speed out of range [0-10]"
    ELSE IF ~Within(EfficiencyMin, p.cell_efficiency, EfficiencyMax)
    THEN "Cell efficiency out of range [0.10-0.30]"
    ELSE NoError

\* jsonify({'error': ...}), status
ErrorResponse(status, error) == [status |-> status, error |-> error]

\* jsonify({'success': True, ...})
SuccessResponse == [status |-> 200, error |-> NoError]

\* No response sent yet.
NoResponse == [status |-> 0, error |-> NoError]

\* ------------------------------------------------------------ the inputs

\* The two requests (or direct callers) whose runs may interleave.
Runs == {"a", "b"}

\* A body with one key set.
Override(f, v) == [EmptyBody EXCEPT ![f] = v]

\* The request bodies tried: no key; one key at, just outside and far outside
\* its bounds, NaN, or text; two keys out of range at once.
Bodies ==
    {EmptyBody}
    \cup {Override("solar_irradiance", Number(n)) :
            n \in {799, 800, 1200, 1201, 1500, NaN}}
    \cup {Override("ambient_temperature", Number(n)) :
            n \in {27999, 28000, 33000, 33001}}
    \cup {Override("wind_speed", Number(n)) : n \in {-1, 0, 1000, 1001}}
    \cup {Override("cell_efficiency", Number(n)) : n \in {99, 100, 300, 301}}
    \cup {Override("absorptivity", Number(n)) : n \in {-95, NaN}}
    \cup {Override("emissivity", v) : v \in {Number(NaN), Text}}
    \cup {Override("solar_irradiance", Text)}
    \cup {[EmptyBody EXCEPT !["wind_speed"] = Number(1001),
                            !["cell_efficiency"] = Number(99)],
          [EmptyBody EXCEPT !["solar_irradiance"] = Number(1500),
                            !["ambient_temperature"] = Number(27999)]}

\* The parameter sets a direct caller constructs: the defaults with n_steps
\* 0, 1 or DirectSteps and dt 0.1 s or 10 s, and one with an irradiance the
\* route would reject.
DirectParameters ==
    {[DefaultParameters EXCEPT !.n_steps = n, !.dt = d] :
        n \in {0, 1, DirectSteps}, d \in {DefaultDt, 100}}
    \cup {[DefaultParameters EXCEPT !.solar_irradiance = 1500, !.n_steps = 1]}

\* ----------------------------------------------- the dashboard's state

\* fidelity_history keeps this many entries.
HistoryLimit == 100
\* The fidelity cycle, 10 s.
FidelityCycle == 100
\* Below 3 s of the cycle the fidelity is 2.
HighBelow == 30
\* Below 7 s of the cycle the fidelity is 1.
MediumBelow == 70

\* SimulationState.__init__, the clock read at construction taken as 0.
NewSimulationState ==
    [time |-> 0, fidelity_history |-> <<>>, temperature_base |-> 45,
     last_update |-> 0]

\* The fidelity switching logic on simulation time t; Python's % takes the
\* sign of the divisor, so the remainder of a negative t is in [0, 10) too.
NewFidelity(t) ==
    IF t % FidelityCycle < HighBelow THEN 2
    ELSE IF t % FidelityCycle < MediumBelow THEN 1
    ELSE 0

\* The truncation as a bug would have it: the first 100 entries kept.
KeepFirst(h) ==
    IF Len(h) > HistoryLimit THEN SubSeq(h, 1, HistoryLimit) ELSE h

\* if len(h) > 100: h = h[-100:]
KeepLast(h) ==
    IF Len(h) > HistoryLimit
    THEN SubSeq(h, Len(h) - HistoryLimit + 1, Len(h))
    ELSE h

\* What update() returns in state s when time.time() reads current_time.
UpdateReturns(s, current_time) ==
    NewFidelity(s.time + (current_time - s.last_update))

\* The state update() leaves behind.
Update(s, current_time) ==
    LET dt == current_time - s.last_update
    IN  [s EXCEPT !.time = @ + dt,
                  !.last_update = current_time,
                  !.fidelity_history =
                      KeepLast(Append(@, UpdateReturns(s, current_time)))]

\* What the clock advances by between two requests of a polling client:
\* nothing (two readings of a coarse clock), 0.7 s, 1 s, 2.5 s, 3 s, and a
\* clock that is set back by 1 s.
PollIntervals == {0, 7, 10, 25, 30, -10}

\* No client is polling.
NoPoll == <<>>

\* -------------------------------------------------------------- the state

VARIABLES
    pc,                \* where each run stands
    origin,            \* "route": POST /api/simulate; "direct": a caller of
                       \* the solver class; "none": not started
    request,           \* request.json of a route run
    params,            \* the SimulationParameters object of the run
    temperature,       \* solver.temperature
    power_generation,  \* solver.power_generation
    step,              \* iterations of the time loop completed
    T_history,         \* run_simulation's T_history
    P_history,         \* run_simulation's P_history
    results,           \* what run_simulation returned
    response,          \* what the route answered
    sim_state,         \* the dashboard's global sim_state
    poll,              \* the interval of the dashboard's polling client
    fidelity_levels    \* fidelity_level of every answer of the dashboard's
                       \* GET /api/simulate, in the order of the calls

\* The dashboard backend's part of the state.
dashboardVars == <<sim_state, poll, fidelity_levels>>

\* The variables of the demo backend's runs.
runVars ==
    <<pc, origin, request, params, temperature, power_generation, step,
      T_history, P_history, results, response>>

vars == <<runVars, dashboardVars>>

\* The grid of a solver that does not exist.
NoGrid == [c \in {} |-> 0]

NoResults == <<>>

Init ==
    /\ pc = [r \in Runs |-> "idle"]
    /\ origin = [r \in Runs |-> "none"]
    /\ request = [r \in Runs |-> EmptyBody]
    /\ params = [r \in Runs |-> DefaultParameters]
    /\ temperature = [r \in Runs |-> NoGrid]
    /\ power_generation = [r \in Runs |-> NoGrid]
    /\ step = [r \in Runs |-> 0]
    /\ T_history = [r \in Runs |-> <<>>]
    /\ P_history = [r \in Runs |-> <<>>]
    /\ results = [r \in Runs |-> NoResults]
    /\ response = [r \in Runs |-> NoResponse]
    /\ sim_state = NewSimulationState
    /\ poll = NoPoll
    /\ fidelity_levels = <<>>

\* SimplifiedPhysicsSolver.__init__ and the first lines of run_simulation:
\* the grids of this instance and the empty histories.
NewSolver(r, p) ==
    /\ temperature' = [temperature EXCEPT ![r] = InitialTemperature(p)]
    /\ power_generation' = [power_generation EXCEPT ![r] = InitialPower(p)]
    /\ step' = [step EXCEPT ![r] = 0]
    /\ T_history' = [T_history EXCEPT ![r] = <<>>]
    /\ P_history' = [P_history EXCEPT ![r] = <<>>]

\* The route up to the construction of the parameter object: a float() that
\* raises is caught by the handler's except and answered with status 500.
Post(r, data) ==
    /\ pc[r] = "idle"
    /\ origin' = [origin EXCEPT ![r] = "route"]
    /\ request' = [request EXCEPT ![r] = data]
    /\ IF FloatRaises(data)
       THEN /\ pc' = [pc EXCEPT ![r] = "failed"]
            /\ response' = [response EXCEPT ![r] =
                   ErrorResponse(500, "could not convert string to float")]
            /\ UNCHANGED params
       ELSE /\ pc' = [pc EXCEPT ![r] = "validate"]
            /\ params' = [params EXCEPT ![r] = ParametersOf(data)]
            /\ UNCHANGED response
    /\ UNCHANGED <<temperature, power_generation, step, T_history, P_history,
                   results>>

\* The route's range checks, then the construction of the solver.
Validate(r) ==
    /\ pc[r] = "validate"
    /\ LET error == ValidationError(params[r])
       IN  IF error # NoError
           THEN /\ pc' = [pc EXCEPT ![r] = "rejected"]
                /\ response' = [response EXCEPT ![r] = ErrorResponse(400, error)]
                /\ UNCHANGED <<temperature, power_generation, step, T_history,
                               P_history>>
           ELSE /\ pc' = [pc EXCEPT ![r] = "running"]
                /\ NewSolver(r, params[r])
                /\ UNCHANGED response
    /\ UNCHANGED <<origin, request, params, results>>

\* A caller other than the route: SimulationParameters(...), then
\* SimplifiedPhysicsSolver(params).run_simulation().
Construct(r, p) ==
    /\ pc[r] = "idle"
    /\ origin' = [origin EXCEPT ![r] = "direct"]
    /\ params' = [params EXCEPT ![r] = p]
    /\ pc' = [pc EXCEPT ![r] = "running"]
    /\ NewSolver(r, p)
    /\ UNCHANGED <<request, results, response>>

\* The loop as a bug would have it: one iteration more than n_steps.
LoopOneMore(k, n_steps) == k <= n_steps

\* for step in range(n_steps)
LoopContinues(k, n_steps) == k < n_steps

\* The field as a bug would have it: one array shared by the instances
\* (a class attribute), so that a run reads what another run wrote.
SharedTemperature(r) ==
    IF \E q \in Runs \ {r} : pc[q] \in {"running", "done"}
    THEN temperature[CHOOSE q \in Runs \ {r} : pc[q] \in {"running", "done"}]
    ELSE temperature[r]

\* self.temperature as run r reads it.
SelfTemperature(r) == temperature[r]

\* The assignment as a bug would have it: power accumulated over the steps.
AccumulatePower(old, P_elec) == [c \in DOMAIN old |-> FAdd(old[c], P_elec[c])]

\* self.power_generation = P_elec
AssignPower(old, P_elec) == P_elec

\* The test as a bug would have it: every 10th step counted from 1.
SnapshotDueFromOne(k) == (k + 1) % 10 = 0

\* if step % 10 == 0
SnapshotDue(k) == k % 10 = 0

\* ndarray.copy(): a history entry is an array of its own; aliased says
\* that the entry is the very array the solver field is bound to.
Copy(grid) == [aliased |-> FALSE, grid |-> grid]

\* What the history entries hold after the solver field was updated in place
\* to `now` and then rebound: an aliased entry saw the update in place.
AfterRebinding(history, now) ==
    [k \in 1 .. Len(history) |->
        IF history[k].aliased THEN [aliased |-> FALSE, grid |-> now]
        ELSE history[k]]

\* One iteration of the time loop of run_simulation.
Step(r) ==
    /\ pc[r] = "running"
    /\ LoopContinues(step[r], params[r].n_steps)
    /\ LET p == params[r]
           T == SelfTemperature(r)
           P_elec == ElectricalGeneration(p, T)
           updated == EulerUpdate(p, T)
           clamped == SafetyClamp(updated)
           power == AssignPower(power_generation[r], P_elec)
           T_old == AfterRebinding(T_history[r], updated)
           P_old == AfterRebinding(P_history[r], power_generation[r])
       IN  /\ power_generation' = [power_generation EXCEPT ![r] = power]
           /\ temperature' = [temperature EXCEPT ![r] = clamped]
           /\ IF SnapshotDue(step[r])
              THEN /\ T_history' = [T_history EXCEPT ![r] =
                                       Append(T_old, Copy(clamped))]
                   /\ P_history' = [P_history EXCEPT ![r] =
                                       Append(P_old, Copy(power))]
              ELSE /\ T_history' = [T_history EXCEPT ![r] = T_old]
                   /\ P_history' = [P_history EXCEPT ![r] = P_old]
    /\ step' = [step EXCEPT ![r] = step[r] + 1]
    /\ UNCHANGED <<pc, origin, request, params, results, response>>

\* The loop is over: run_simulation returns the summary, and the route
\* answers with it.
Finish(r) ==
    /\ pc[r] = "running"
    /\ ~LoopContinues(step[r], params[r].n_steps)
    /\ results' = [results EXCEPT ![r] =
           Summary(params[r], temperature[r], power_generation[r])]
    /\ response' = [response EXCEPT ![r] =
           IF origin[r] = "route" THEN SuccessResponse ELSE NoResponse]
    /\ pc' = [pc EXCEPT ![r] = "done"]
    /\ UNCHANGED <<origin, request, params, temperature, power_generation,
                   step, T_history, P_history>>

\* What one run can do next.
RunNext(r) ==
    \/ \E data \in Bodies : Post(r, data)
    \/ Validate(r)
    \/ \E p \in DirectParameters : Construct(r, p)
    \/ Step(r)
    \/ Finish(r)

\* One request or caller at a time.
Next == RunNext("a") /\ UNCHANGED dashboardVars

Spec == Init /\ [][Next]_vars

\* Two of them, their steps interleaved in any order (the development server
\* serves each request in a thread of its own).
NextPair == (\E r \in Runs : RunNext(r)) /\ UNCHANGED dashboardVars

SpecPair == Init /\ [][NextPair]_vars

\* A client starts polling the dashboard every d.
Open(d) ==
    /\ poll = NoPoll
    /\ poll' = <<d>>
    /\ UNCHANGED <<sim_state, fidelity_levels, runVars>>

\* GET /api/simulate of the dashboard backend, served alone from the call
\* of sim_state.update() to the answer.
Simulate ==
    /\ poll # NoPoll
    /\ Len(fidelity_levels) < MaxCalls
    /\ LET current_time == sim_state.last_update + poll[1]
       IN  /\ sim_state' = Update(sim_state, current_time)
           /\ fidelity_levels' =
                  Append(fidelity_levels,
                         UpdateReturns(sim_state, current_time))
    /\ UNCHANGED <<poll, runVars>>

NextDashboard ==
    \/ \E d \in PollIntervals : Open(d)
    \/ Simulate

SpecDashboard == Init /\ [][NextDashboard]_vars

\* ------------------------------------------------------------- the claims

\* The solver of run r was constructed.
SolverRun(r) == pc[r] \in {"running", "done"}

\* The four range checks of the route pass on p.
Accepted(p) ==
    /\ Within(800, p.solar_irradiance, 1200)
    /\ Within(28000, p.ambient_temperature, 33000)
    /\ Within(0, p.wind_speed, 1000)
    /\ Within(100, p.cell_efficiency, 300)

\* Every cell of grid T lies in [200 K, 450 K].
InSafetyInterval(T) == \A c \in DOMAIN T : Within(20000, T[c], 45000)

\* Every element of the list of rows L lies in [200 K, 450 K].
ListInSafetyInterval(L) ==
    \A i \in DOMAIN L : \A j \in DOMAIN L[i] : Within(20000, L[i][j], 45000)

\* C1 (as claimed): for every parameter set the route's validation accepts,
\* every cell of the temperature grid lies in [200 K, 450 K] when the solver
\* is constructed and after every step, and so does every cell of every
\* snapshot and of the returned temperature_field.
C1_TemperatureInSafetyInterval ==
    \A r \in Runs :
        (SolverRun(r) /\ Accepted(params[r])) =>
            /\ InSafetyInterval(temperature[r])
            /\ \A k \in DOMAIN T_history[r] :
                   InSafetyInterval(T_history[r][k].grid)
            /\ pc[r] = "done" =>
                   ListInSafetyInterval(results[r].temperature_field)

\* What C1 has left when no parameter is NaN: the clamp then keeps every
\* cell in the interval, also in runs that reach it.
ClampHoldsWithoutNaN ==
    \A r \in Runs :
        (/\ SolverRun(r)
         /\ Accepted(params[r])
         /\ ~IsNaN(params[r].absorptivity)
         /\ ~IsNaN(params[r].emissivity)
         /\ ~IsNaN(params[r].thermal_conductivity)) =>
            InSafetyInterval(temperature[r])

\* A run whose temperature the clamp has cut at both ends.
ClampReached ==
    \E r \in Runs :
        /\ SolverRun(r)
        /\ Accepted(params[r])
        /\ \E c \in DOMAIN temperature[r] : temperature[r][c] = 20000
        /\ \E c \in DOMAIN temperature[r] : temperature[r][c] = 45000

\* No parameter of p is NaN.
AllNumbers(p) ==
    /\ ~IsNaN(p.solar_irradiance) /\ ~IsNaN(p.ambient_temperature)
    /\ ~IsNaN(p.wind_speed) /\ ~IsNaN(p.cell_efficiency)
    /\ ~IsNaN(p.thermal_conductivity) /\ ~IsNaN(p.absorptivity)
    /\ ~IsNaN(p.emissivity)

\* C4 (as claimed, and here only for parameter sets without NaN): for every
\* parameter set the route's validation accepts, every element of the power
\* grid is >= 0 after every step, and so is every element of the returned
\* power_field.
C4_PowerNonNegative ==
    \A r \in Runs :
        (SolverRun(r) /\ Accepted(params[r]) /\ AllNumbers(params[r])) =>
            /\ \A c \in DOMAIN power_generation[r] :
                   0 <= power_generation[r][c]
            /\ pc[r] = "done" =>
                   \A i \in DOMAIN results[r].power_field :
                       \A j \in DOMAIN results[r].power_field[i] :
                           0 <= results[r].power_field[i][j]

\* C5: a run with n_steps = 0 executes no step; it returns the uniform field
\* of ambient_temperature as temperature_field, zeros as power_field, and 0
\* as power_total and power_mean.
C5_ZeroSteps ==
    \A r \in Runs :
        (pc[r] = "done" /\ params[r].n_steps = 0) =>
            /\ step[r] = 0
            /\ Len(results[r].temperature_field) = params[r].ny
            /\ Len(results[r].power_field) = params[r].ny
            /\ \A i \in 1 .. params[r].ny :
                   /\ Len(results[r].temperature_field[i]) = params[r].nx
                   /\ Len(results[r].power_field[i]) = params[r].nx
                   /\ \A j \in 1 .. params[r].nx :
                          /\ results[r].temperature_field[i][j] =
                                 params[r].ambient_temperature
                          /\ results[r].power_field[i][j] = 0
            /\ results[r].power_total = 0
            /\ results[r].power_mean = 0

\* C5's case: a run with n_steps = 0 has returned.
C5_Witness == \E r \in Runs : pc[r] = "done" /\ params[r].n_steps = 0

\* C3 (as claimed): with wind_speed = 0 the convection coefficient of a
\* running solver is exactly 5.0.
C3_FloorAtZeroWind ==
    \A r \in Runs :
        (SolverRun(r) /\ params[r].wind_speed = 0) =>
            ConvectionCoefficient(params[r]) = 500

\* C3 (amended): with wind_speed = 0 the convection coefficient is 10.45,
\* the value of 10.45 - v + 10 sqrt(v), which the floor of 5.0 leaves as it
\* is; the convective loss of every cell is 10.45 * cell_area * (T - T_amb).
C3_BaseAtZeroWind ==
    \A r \in Runs :
        (SolverRun(r) /\ params[r].wind_speed = 0) =>
            /\ ConvectionCoefficient(params[r]) = 1045
            /\ \A c \in DOMAIN temperature[r] :
                   ~IsNaN(temperature[r][c]) =>
                       ConvectiveCooling(params[r], temperature[r])[c] =
                           (1045 * (temperature[r][c]
                                    - params[r].ambient_temperature)) \div 1000

\* C3's case: a solver with wind_speed = 0 has made steps that moved the
\* temperature off the ambient temperature.
C3_Witness ==
    \E r \in Runs :
        /\ SolverRun(r) /\ params[r].wind_speed = 0 /\ step[r] > 0
        /\ \E c \in DOMAIN temperature[r] :
               temperature[r][c] # params[r].ambient_temperature

\* The route has decided about the request of run r.
Settled(r) ==
    origin[r] = "route" /\ pc[r] \in {"failed", "rejected", "running", "done"}

\* The body gives (or leaves to the default) a value inside [lo, hi].
KeyInRange(data, key, default, lo, hi) ==
    /\ Get(data, key, default).kind = "float"
    /\ Within(lo, Get(data, key, default).value, hi)

\* The four validated fields of the request lie inside their intervals.
BodyInRange(data) ==
    /\ KeyInRange(data, "solar_irradiance", 1000, 800, 1200)
    /\ KeyInRange(data, "ambient_temperature", 30000, 28000, 33000)
    /\ KeyInRange(data, "wind_speed", 100, 0, 1000)
    /\ KeyInRange(data, "cell_efficiency", 200, 100, 300)

\* Run r was answered with an error and no solver of it exists.
RefusedUnrun(r) ==
    /\ response[r].status \in {400, 500}
    /\ response[r].error # ""
    /\ DOMAIN temperature[r] = {}
    /\ DOMAIN power_generation[r] = {}
    /\ step[r] = 0

\* C2 (as claimed): the route constructs and runs the solver if and only if
\* the four validated fields of the request lie inside their closed
\* intervals; otherwise it answers with an error and runs no solver step.
C2_RunIffInRange ==
    \A r \in Runs :
        Settled(r) =>
            /\ SolverRun(r) <=> BodyInRange(request[r])
            /\ ~BodyInRange(request[r]) => RefusedUnrun(r)

\* C2 (amended): the route constructs and runs the solver if and only if
\* float() converts all seven fields of the request and the four validated
\* ones lie inside their closed intervals; otherwise it answers with an
\* error (500 when a conversion raised, else 400) and runs no solver step.
C2_RunIffConvertedAndInRange ==
    \A r \in Runs :
        Settled(r) =>
            /\ SolverRun(r) <=>
                   (~FloatRaises(request[r]) /\ BodyInRange(request[r]))
            /\ ~SolverRun(r) => RefusedUnrun(r)
            /\ pc[r] = "failed" <=> FloatRaises(request[r])
            /\ pc[r] = "failed" => response[r].status = 500
            /\ pc[r] = "rejected" => response[r].status = 400

\* C2's case: a request with solar_irradiance at its bound 800 was run to
\* the end.
C2_Witness ==
    \E r \in Runs :
        /\ Settled(r)
        /\ pc[r] = "done"
        /\ step[r] = params[r].n_steps
        /\ request[r]["solar_irradiance"] = Number(800)

ErrorReadings ==
    {[text |-> "Solar irradiance out of range [800-1200]",
      field |-> "solar_irradiance", lo |-> 800, hi |-> 1200],
     [text |-> "Ambient temperature out of range [280-330]",
      field |-> "ambient_temperature", lo |-> 28000, hi |-> 33000],
     [text |-> "Wind speed out of range [0-10]",
      field |-> "wind_speed", lo |-> 0, hi |-> 1000],
     [text |-> "Cell efficiency out of range [0.10-0.30]",
      field |-> "cell_efficiency", lo |-> 100, hi |-> 300]}

\* C8: the error of a request the validation rejects names one of the four
\* validated fields together with that field's closed interval, and the value
\* of the field named lies outside the interval; solar_irradiance = 1500 is
\* rejected with the text naming solar irradiance and [800, 1200].
C8_ErrorNamesFieldAndInterval ==
    \A r \in Runs :
        pc[r] = "rejected" =>
            /\ response[r].status = 400
            /\ \E e \in ErrorReadings :
                   /\ response[r].error = e.text
                   /\ ~Within(e.lo, params[r][e.field], e.hi)
            /\ params[r].solar_irradiance = 1500 =>
                   response[r].error = "Solar irradiance out of range [800-1200]"

\* C8's case: solar_irradiance = 1500 was rejected.
C8_Witness ==
    \E r \in Runs :
        pc[r] = "rejected" /\ params[r].solar_irradiance = 1500

\* C6: two runs with identical parameter values return identical results
\* (runtime_ms aside), however their steps interleave, and what one run does
\* leaves the grids, histories and results of the other as they are.
C6_RunsIndependent ==
    /\ [](\A r, q \in Runs :
              (pc[r] = "done" /\ pc[q] = "done" /\ params[r] = params[q]) =>
                  results[r] = results[q])
    /\ [][\A r, q \in Runs :
              (r # q /\ (pc'[r] # pc[r] \/ step'[r] # step[r])) =>
                  /\ temperature'[q] = temperature[q]
                  /\ power_generation'[q] = power_generation[q]
                  /\ T_history'[q] = T_history[q]
                  /\ P_history'[q] = P_history[q]
                  /\ results'[q] = results[q]]_vars

\* C6's case: two runs of several steps with identical parameters have both
\* returned.
C6_Witness ==
    /\ pc["a"] = "done" /\ pc["b"] = "done"
    /\ params["a"] = params["b"]
    /\ step["a"] > 1 /\ step["b"] > 1

RECURSIVE Tabulated(_, _)
\* The grid f written out cell by cell over the cells S.
Tabulated(f, S) ==
    IF S = {} THEN <<>>
    ELSE LET c == CHOOSE x \in S : TRUE
         IN  (c :> f[c]) @@ Tabulated(f, S \ {c})

RECURSIVE GridFrom(_, _, _)
\* The temperature grid k steps after the grid T of a solver over p.
GridFrom(p, T, k) ==
    IF k = 0 THEN T
    ELSE LET after == Tabulated(SafetyClamp(EulerUpdate(p, T)), Cells(p))
         IN  IF DOMAIN after = Cells(p) THEN GridFrom(p, after, k - 1)
             ELSE after

\* The temperature grid of a solver over p after k steps, computed from the
\* initial grid.
GridAfter(p, k) ==
    GridFrom(p, Tabulated(InitialTemperature(p), Cells(p)), k)

\* ceil(n / 10)
CeilTenth(n) == (n + 9) \div 10

\* C9: the histories hold one snapshot for every completed step whose
\* 0-based index is a multiple of 10, ceil(n_steps / 10) at the end, the j-th
\* being the temperature grid after step 10 (j - 1); the step
\* with such an index appends copies of the temperature grid after its clamp
\* and of its power grid, every other step appends nothing, and no step
\* changes a snapshot taken before; the summary returned is that of the final
\* grids, whatever the histories hold.
C9_SnapshotEveryTenthStep ==
    /\ [](\A r \in Runs : SolverRun(r) =>
              /\ Len(T_history[r]) = CeilTenth(step[r])
              /\ Len(P_history[r]) = CeilTenth(step[r])
              /\ pc[r] = "done" =>
                     Len(T_history[r]) = CeilTenth(params[r].n_steps)
              /\ \A j \in DOMAIN T_history[r] :
                     T_history[r][j].grid =
                         GridAfter(params[r], 10 * (j - 1) + 1))
    /\ [][\A r \in Runs :
              /\ step'[r] = step[r] + 1 =>
                     IF step[r] % 10 = 0
                     THEN /\ T_history'[r] =
                                 Append(T_history[r],
                                        [aliased |-> FALSE,
                                         grid |-> temperature'[r]])
                          /\ P_history'[r] =
                                 Append(P_history[r],
                                        [aliased |-> FALSE,
                                         grid |-> power_generation'[r]])
                     ELSE /\ T_history'[r] = T_history[r]
                          /\ P_history'[r] = P_history[r]
              /\ (pc[r] = "running" /\ pc'[r] = "done") =>
                     /\ T_history'[r] = T_history[r]
                     /\ P_history'[r] = P_history[r]
                     /\ results'[r] =
                            Summary(params[r], temperature[r],
                                    power_generation[r])]_vars

\* C9's case: a run of more than ten steps has returned with two snapshots.
C9_Witness ==
    \E r \in Runs :
        /\ pc[r] = "done"
        /\ params[r].n_steps > 10
        /\ Len(T_history[r]) = 2

\* C10: every step replaces the power grid by P_elec of the temperature grid
\* as it stood before the step's Euler update and clamp, whatever the power
\* grid held, and run_simulation returns that power grid together with the
\* temperature grid after the last step: for n_steps >= 1 the power_field
\* returned is P_elec of the temperature grid after n_steps - 1 steps, and
\* the temperature_field returned is the grid after n_steps steps.
C10_PowerFromTemperatureBeforeStep ==
    /\ [](\A r \in Runs :
              (pc[r] = "done" /\ params[r].n_steps >= 1) =>
                  /\ results[r].power_field =
                         ToList(params[r],
                                ElectricalGeneration(
                                    params[r],
                                    GridAfter(params[r],
                                              params[r].n_steps - 1)))
                  /\ results[r].temperature_field =
                         ToList(params[r],
                                GridAfter(params[r], params[r].n_steps)))
    /\ [][\A r \in Runs :
           /\ step'[r] = step[r] + 1 =>
                  power_generation'[r] =
                      ElectricalGeneration(params[r], temperature[r])
           /\ (pc[r] = "running" /\ pc'[r] = "done") =>
                  /\ results'[r].power_field =
                         ToList(params[r], power_generation[r])
                  /\ results'[r].temperature_field =
                         ToList(params[r], temperature[r])]_vars

\* C10's case: a run of at least two steps has returned a power_field that
\* is not P_elec of the temperature_field it returned.
C10_Witness ==
    \E r \in Runs :
        /\ pc[r] = "done"
        /\ params[r].n_steps > 1
        /\ results[r].power_field #
               ToList(params[r],
                      ElectricalGeneration(params[r], temperature[r]))

\* The smaller of a and b.
Smaller(a, b) == IF a < b THEN a ELSE b

\* C11: after any number k of update() calls served one at a time,
\* fidelity_history has min(k, 100) entries, at most 100, which are the
\* values the most recent min(k, 100) calls returned, in call order; every
\* entry is 0, 1 or 2, and the value the last call returned is the last entry.
C11_HistoryIsRecentReturns ==
    LET h == sim_state.fidelity_history
        k == Len(fidelity_levels)
        m == Smaller(k, HistoryLimit)
    IN  /\ Len(h) <= HistoryLimit
        /\ Len(h) = m
        /\ \A i \in 1..m :
               /\ h[i] = fidelity_levels[k - m + i]
               /\ h[i] \in {0, 1, 2}
        /\ k > 0 => fidelity_levels[k] = h[Len(h)]

\* C11's case: more than 100 calls were served, the history was cut, and it
\* is not what the first 100 calls returned.
C11_Witness ==
    /\ Len(fidelity_levels) > HistoryLimit
    /\ Len(sim_state.fidelity_history) = HistoryLimit
    /\ sim_state.fidelity_history # SubSeq(fidelity_levels, 1, HistoryLimit)
    /\ \E i, j \in 1..HistoryLimit :
           sim_state.fidelity_history[i] # sim_state.fidelity_history[j]

====
